---- MODULE Spec2Model ----
(***************************************************************************)
(* The duplex voice session manager of Google-Companion: the React hook    *)
(* useGeminiLive (src/unnamed/part_005, the revision with the mic gate,    *)
(* transcripts and sendTextMessage).                                       *)
(*                                                                         *)
(* Time is in milliseconds.  Both clocks of the hook are derived from the  *)
(* one variable now: Date.now() is Epoch + now, and the currentTime of an  *)
(* output AudioContext is now minus the time the context was created.      *)
(*                                                                         *)
(* React state (connectionState, isSpeaking) holds the value last handed   *)
(* to its setter; what the closures of the last render captured            *)
(* (connectionStateSeen) and what the effects of the last render copied    *)
(* into refs (isSpeakingRef, isMusicPlayingRef) only follow at Render.     *)
(***************************************************************************)
EXTENDS Integers, Sequences, FiniteSets, TLC

\* ---- bounds ----
MaxConnects == 2
MaxCleanups == 2
MaxSources == 2
MaxHandlers == 2
MaxTime == 700
MaxInterrupts == 1
MaxBatches == 2
Epoch == 5000
TickMs == 350
MaxTranscriptEvents == 3
MaxTexts == 2
MaxUnknown == 1

\* ---- program constants ----
Cooldown == 700

Connects == 1..MaxConnects
CleanupIds == 1..MaxCleanups
HandlerIds == 1..MaxHandlers

VARIABLES
    now,
    connectionState, connectionStateSeen,
    isSpeaking, isSpeakingRef,
    isMusicPlaying, isMusicPlayingRef,
    inputAudioContextRef, outputAudioContextRef,
    scriptProcessorRef, sessionPromiseRef,
    activeSourcesRef, nextStartTimeRef, lastSpeechEndTimeRef,
    inputContexts, outputContexts, processors, sessions,
    connects, nConnects,
    cleanups, nCleanups,
    sources,
    handlers,
    deferredFrames, sentFrames,
    sentToolResponses, deferredToolResponses, toolBatches,
    speechEndedAt, interruptsHandled,
    currentInputTranscriptRef, currentOutputTranscriptRef, chatMessages,
    heard, flushed, lastEvent, eventBefore, transcriptEvents, unknownEvents,
    sentTexts, deferredTexts, errorLogs, nTexts,
    integrationsConfig, accessToken, customSearchCx, tools

reactVars == <<connectionState, connectionStateSeen, isSpeaking, isSpeakingRef,
               isMusicPlaying, isMusicPlayingRef>>
refVars == <<inputAudioContextRef, outputAudioContextRef, scriptProcessorRef,
             sessionPromiseRef, activeSourcesRef, nextStartTimeRef,
             lastSpeechEndTimeRef>>
objVars == <<inputContexts, outputContexts, processors, sessions, sources>>
procVars == <<connects, nConnects, cleanups, nCleanups, handlers>>
toolVars == <<sentToolResponses, deferredToolResponses, toolBatches>>
\* the transcript accumulators, the messages handed to onChatUpdate, what
\* has been heard and flushed of the transcription, and the number of
\* messages received that no branch of onmessage recognizes
chatVars == <<currentInputTranscriptRef, currentOutputTranscriptRef, chatMessages,
              heard, flushed, lastEvent, eventBefore, transcriptEvents, unknownEvents>>
\* sendTextMessage: the texts sent, those chained on a session that is still
\* opening, and the error log entries
textVars == <<sentTexts, deferredTexts, errorLogs, nTexts>>
obsVars == <<deferredFrames, sentFrames, toolVars, speechEndedAt, interruptsHandled,
             chatVars, textVars>>
\* the props of the hook that decide the tool manifest, and the tools each
\* connect() has put into the configuration of its session
propVars == <<integrationsConfig, accessToken, customSearchCx, tools>>
vars == <<now, reactVars, refVars, objVars, procVars, obsVars, propVars>>

\* ---- clocks ----
DateNow == Epoch + now

CurrentTime(c) == now - outputContexts[c].t0

\* outputAudioContextRef.current?.currentTime || 0
OutputTimeOrZero == IF outputAudioContextRef = 0 THEN 0 ELSE CurrentTime(outputAudioContextRef)

\* ---- records ----
NoCleanup == [pc |-> "none", ctx |-> 0, rejects |-> FALSE, gen |-> 0]

\* seq orders the runs of onmessage that are under way by the arrival of
\* their messages; arrived is the number of interruptions that had been
\* handled when the message of the run arrived
IdleHandler == [pc |-> "idle", sess |-> 0, batch |-> 0, calls |-> <<>>,
                responses |-> <<>>, parts |-> <<>>, ctx |-> 0, interrupted |-> FALSE,
                seq |-> 0, arrived |-> 0]

NoProcessor == [state |-> "none", ctx |-> 0]

NoContext == [state |-> "none", t0 |-> 0]

NoText == [user |-> <<>>, model |-> <<>>]

NoTools == [functionDeclarations |-> {}, googleSearch |-> FALSE]

\* every integration enabled, the user signed in, a search engine id set
AllEnabled == [workspace |-> TRUE, openTabs |-> TRUE, personalizedSearch |-> TRUE]

\* the hook before the first connect()
InitSession ==
    /\ now = 0
    /\ connectionState = "disconnected"
    /\ connectionStateSeen = "disconnected"
    /\ isSpeaking = FALSE
    /\ isSpeakingRef = FALSE
    /\ isMusicPlaying = FALSE
    /\ isMusicPlayingRef = FALSE
    /\ inputAudioContextRef = 0
    /\ outputAudioContextRef = 0
    /\ scriptProcessorRef = 0
    /\ sessionPromiseRef = 0
    /\ activeSourcesRef = {}
    /\ nextStartTimeRef = 0
    /\ lastSpeechEndTimeRef = 0
    /\ inputContexts = [k \in Connects |-> "none"]
    /\ outputContexts = [k \in Connects |-> NoContext]
    /\ processors = [k \in Connects |-> NoProcessor]
    /\ sessions = [k \in Connects |-> "none"]
    /\ connects = [k \in Connects |-> "none"]
    /\ nConnects = 0
    /\ cleanups = [c \in CleanupIds |-> NoCleanup]
    /\ nCleanups = 0
    /\ sources = <<>>
    /\ handlers = [h \in HandlerIds |-> IdleHandler]
    /\ deferredFrames = {}
    /\ sentFrames = {}
    /\ sentToolResponses = <<>>
    /\ deferredToolResponses = <<>>
    /\ toolBatches = <<>>
    /\ speechEndedAt = 0
    /\ interruptsHandled = 0
    /\ currentInputTranscriptRef = <<>>
    /\ currentOutputTranscriptRef = <<>>
    /\ chatMessages = <<>>
    /\ heard = NoText
    /\ flushed = NoText
    /\ lastEvent = "none"
    /\ eventBefore = "none"
    /\ transcriptEvents = 0
    /\ unknownEvents = 0
    /\ sentTexts = <<>>
    /\ deferredTexts = <<>>
    /\ errorLogs = 0
    /\ nTexts = 0
    /\ tools = [k \in Connects |-> NoTools]

Init ==
    /\ InitSession
    /\ integrationsConfig = AllEnabled
    /\ accessToken = TRUE
    /\ customSearchCx = TRUE

\* ---- cleanup (disconnect) ----

\* activeSourcesRef.current.forEach(source => source.stop())
StopSources == [i \in DOMAIN sources |->
                  IF i \in activeSourcesRef
                    THEN [sources[i] EXCEPT !.stopped = TRUE]
                    ELSE sources[i]]

\* AudioContext.close() on a context that is already closing or closed
\* rejects in some browsers and resolves in others.
CloseRejects(state) == IF state = "running" THEN {FALSE} ELSE BOOLEAN

Closing(state) == IF state = "running" THEN "closing" ELSE state

\* the tail of cleanup after the output context is gone
CleanupFinish(c, gen) ==
    /\ outputAudioContextRef' = 0
    /\ isSpeaking' = FALSE
    /\ speechEndedAt' = IF isSpeaking THEN DateNow ELSE speechEndedAt
    /\ connectionState' = "disconnected"
    /\ sessionPromiseRef' = 0
    /\ cleanups' = [cleanups EXCEPT ![c] = [pc |-> "done", ctx |-> 0,
                                            rejects |-> FALSE, gen |-> gen]]

\* "Stop output": stop and clear the active sources, then close the output
\* context (an await) or, when there is none, run to the end.
CleanupStopOutput(c, gen, cs, outC) ==
    /\ sources' = StopSources
    /\ activeSourcesRef' = {}
    /\ IF outputAudioContextRef # 0
         THEN \E rej \in CloseRejects(outC[outputAudioContextRef].state) :
                /\ outputContexts' = [outC EXCEPT ![outputAudioContextRef].state = Closing(@)]
                /\ cleanups' = [cleanups EXCEPT ![c] =
                                  [pc |-> "closeOutput", ctx |-> outputAudioContextRef,
                                   rejects |-> rej, gen |-> gen]]
                /\ connectionState' = cs
                /\ UNCHANGED <<outputAudioContextRef, isSpeaking, speechEndedAt,
                               sessionPromiseRef>>
         ELSE /\ outputContexts' = outC
              /\ CleanupFinish(c, gen)

\* A call of cleanup(): "Stop input", then close the input context (an
\* await) or, when there is none, go on with the output.  cs is the
\* connection state the caller has set before the call.
CleanupBegin(cs) ==
    /\ nCleanups < MaxCleanups
    /\ nCleanups' = nCleanups + 1
    /\ processors' = IF scriptProcessorRef # 0
                       THEN [processors EXCEPT ![scriptProcessorRef].state = "disconnected"]
                       ELSE processors
    /\ scriptProcessorRef' = 0
    /\ IF inputAudioContextRef # 0
         THEN \E rej \in CloseRejects(inputContexts[inputAudioContextRef]) :
                /\ inputContexts' = [inputContexts EXCEPT ![inputAudioContextRef] = Closing(@)]
                /\ cleanups' = [cleanups EXCEPT ![nCleanups + 1] =
                                  [pc |-> "closeInput", ctx |-> inputAudioContextRef,
                                   rejects |-> rej, gen |-> nConnects]]
                /\ connectionState' = cs
                /\ UNCHANGED <<inputAudioContextRef, outputAudioContextRef, outputContexts,
                               sources, activeSourcesRef, isSpeaking, speechEndedAt,
                               sessionPromiseRef>>
         ELSE /\ UNCHANGED <<inputContexts, inputAudioContextRef>>
              /\ CleanupStopOutput(nCleanups + 1, nConnects, cs, outputContexts)

\* what a caller of cleanup() leaves alone besides what cleanup writes
CleanupFrame == UNCHANGED <<now, propVars, connectionStateSeen, isSpeakingRef, isMusicPlaying,
                            isMusicPlayingRef, nextStartTimeRef, lastSpeechEndTimeRef,
                            handlers, deferredFrames, sentFrames, toolVars,
                            interruptsHandled, chatVars, textVars>>

\* disconnect() called by the user of the hook
Disconnect ==
    /\ CleanupBegin(connectionState)
    /\ CleanupFrame
    /\ UNCHANGED <<sessions, connects, nConnects>>

\* await inputAudioContextRef.current.close() settles
CleanupResumeInput(c) ==
    /\ cleanups[c].pc = "closeInput"
    /\ IF cleanups[c].rejects
         THEN /\ cleanups' = [cleanups EXCEPT ![c].pc = "rejected"]
              /\ UNCHANGED <<inputContexts, inputAudioContextRef, outputAudioContextRef,
                             outputContexts, sources, activeSourcesRef, isSpeaking,
                             speechEndedAt, sessionPromiseRef, connectionState>>
         ELSE /\ inputContexts' = [inputContexts EXCEPT ![cleanups[c].ctx] = "closed"]
              /\ inputAudioContextRef' = 0
              /\ CleanupStopOutput(c, cleanups[c].gen, connectionState, outputContexts)
    /\ CleanupFrame
    /\ UNCHANGED <<processors, scriptProcessorRef, nCleanups, sessions, connects, nConnects>>

\* await outputAudioContextRef.current.close() settles
CleanupResumeOutput(c) ==
    /\ cleanups[c].pc = "closeOutput"
    /\ IF cleanups[c].rejects
         THEN /\ cleanups' = [cleanups EXCEPT ![c].pc = "rejected"]
              /\ UNCHANGED <<outputAudioContextRef, outputContexts, isSpeaking,
                             speechEndedAt, sessionPromiseRef, connectionState>>
         ELSE /\ outputContexts' = [outputContexts EXCEPT ![cleanups[c].ctx].state = "closed"]
              /\ CleanupFinish(c, cleanups[c].gen)
    /\ CleanupFrame
    /\ UNCHANGED <<inputContexts, inputAudioContextRef, sources, activeSourcesRef,
                   processors, scriptProcessorRef, nCleanups, sessions, connects, nConnects>>

\* ---- React ----

\* A render: the closures are re-created with the current state, and the
\* effects copy isSpeaking and the isMusicPlaying prop into their refs.
Render ==
    /\ \/ connectionStateSeen # connectionState
       \/ isSpeakingRef # isSpeaking
       \/ isMusicPlayingRef # isMusicPlaying
    /\ connectionStateSeen' = connectionState
    /\ isSpeakingRef' = isSpeaking
    /\ isMusicPlayingRef' = isMusicPlaying
    /\ UNCHANGED <<now, propVars, connectionState, isSpeaking, isMusicPlaying, refVars, objVars,
                   procVars, obsVars>>

\* the owner of the hook changes the isMusicPlaying prop
SetMusicPlaying(b) ==
    /\ isMusicPlaying # b
    /\ isMusicPlaying' = b
    /\ UNCHANGED <<now, propVars, connectionState, connectionStateSeen, isSpeaking, isSpeakingRef,
                   isMusicPlayingRef, refVars, objVars, procVars, obsVars>>

Tick(d) ==
    /\ now + d <= MaxTime
    /\ now' = now + d
    /\ UNCHANGED <<propVars, reactVars, refVars, objVars, procVars, obsVars>>

\* ---- connect ----

\* toolList: the declarations that are always there (rememberNote stands
\* for them) and those pushed for an enabled integration; searchWeb needs
\* the flag, an access token and a search engine id
ToolList(config, token, cx) ==
    {"rememberNote"}
      \cup (IF config.workspace THEN {"searchGoogleDrive"} ELSE {})
      \cup (IF config.openTabs THEN {"openUrl"} ELSE {})
      \cup (IF config.personalizedSearch /\ token /\ cx THEN {"searchWeb"} ELSE {})

\* tools: the declarations, and the native googleSearch when personalized
\* search is not enabled
Tools(config, token, cx) ==
    [functionDeclarations |-> ToolList(config, token, cx),
     googleSearch |-> ~config.personalizedSearch]

\* the guard of connect(): it reads the connectionState its closure captured
ConnectGuard == connectionStateSeen \notin {"connected", "connecting"}

\* connect() up to "await navigator.mediaDevices.getUserMedia"
Connect ==
    /\ ConnectGuard
    /\ nConnects < MaxConnects
    /\ nConnects' = nConnects + 1
    /\ connectionState' = "connecting"
    /\ inputContexts' = [inputContexts EXCEPT ![nConnects + 1] = "running"]
    /\ inputAudioContextRef' = nConnects + 1
    /\ outputContexts' = [outputContexts EXCEPT ![nConnects + 1] =
                            [state |-> "running", t0 |-> now]]
    /\ outputAudioContextRef' = nConnects + 1
    /\ connects' = [connects EXCEPT ![nConnects + 1] = "awaitMic"]
    /\ UNCHANGED <<now, propVars, connectionStateSeen, isSpeaking, isSpeakingRef, isMusicPlaying,
                   isMusicPlayingRef, scriptProcessorRef, sessionPromiseRef,
                   activeSourcesRef, nextStartTimeRef, lastSpeechEndTimeRef,
                   processors, sessions, sources, cleanups, nCleanups, handlers, obsVars>>

\* catch (error) { setConnectionState(ERROR); disconnect(); }
ConnectCatch(k) ==
    /\ connects' = [connects EXCEPT ![k] = "failed"]
    /\ CleanupBegin("error")
    /\ CleanupFrame
    /\ UNCHANGED <<sessions, nConnects>>

\* getUserMedia rejects: permission denied or no device
MicDenied(k) ==
    /\ connects[k] = "awaitMic"
    /\ ConnectCatch(k)

\* Creating nodes on inputAudioContextRef.current: a TypeError when cleanup
\* has set the ref to null; on a context that is closing or closed some
\* browsers throw and others do not.
PipelineThrows ==
    IF inputAudioContextRef = 0 THEN {TRUE}
    ELSE IF inputContexts[inputAudioContextRef] = "running" THEN {FALSE}
    ELSE BOOLEAN

\* getUserMedia resolves: connect() from "Setup Input Pipeline" to its end;
\* the promise of ai.live.connect is stored and not awaited.
MicGranted(k) ==
    /\ connects[k] = "awaitMic"
    /\ \E throws \in PipelineThrows :
         IF throws
           THEN ConnectCatch(k)
           ELSE /\ connects' = [connects EXCEPT ![k] = "started"]
                /\ processors' = [processors EXCEPT ![k] =
                                    [state |-> "connected", ctx |-> inputAudioContextRef]]
                /\ scriptProcessorRef' = k
                /\ sessions' = [sessions EXCEPT ![k] = "opening"]
                /\ sessionPromiseRef' = k
                /\ tools' = [tools EXCEPT ![k] =
                               Tools(integrationsConfig, accessToken, customSearchCx)]
                /\ UNCHANGED <<now, integrationsConfig, accessToken, customSearchCx,
                               reactVars, inputAudioContextRef, outputAudioContextRef,
                               activeSourcesRef, nextStartTimeRef, lastSpeechEndTimeRef,
                               inputContexts, outputContexts, sources, nConnects,
                               cleanups, nCleanups, handlers, obsVars>>

\* ---- transport callbacks ----

\* callbacks.onopen, then the session promise resolves and the sends that
\* were chained on it run
OnOpen(k) ==
    /\ sessions[k] = "opening"
    /\ sessions' = [sessions EXCEPT ![k] = "open"]
    /\ connectionState' = "connected"
    /\ nextStartTimeRef' = OutputTimeOrZero
    /\ sentFrames' = sentFrames \cup {f \in deferredFrames : f.sess = k}
    /\ deferredFrames' = {f \in deferredFrames : f.sess # k}
    /\ sentToolResponses' = sentToolResponses \o SelectSeq(deferredToolResponses, LAMBDA r : r.to = k)
    /\ deferredToolResponses' = SelectSeq(deferredToolResponses, LAMBDA r : r.to # k)
    /\ sentTexts' = sentTexts \o SelectSeq(deferredTexts, LAMBDA x : x.to = k)
    /\ deferredTexts' = SelectSeq(deferredTexts, LAMBDA x : x.to # k)
    /\ UNCHANGED <<now, propVars, connectionStateSeen, isSpeaking, isSpeakingRef, isMusicPlaying,
                   isMusicPlayingRef, inputAudioContextRef, outputAudioContextRef,
                   scriptProcessorRef, sessionPromiseRef, activeSourcesRef,
                   lastSpeechEndTimeRef, inputContexts, outputContexts, processors,
                   sources, procVars, toolBatches, speechEndedAt, interruptsHandled,
                   chatVars, errorLogs, nTexts>>

\* the promise of ai.live.connect rejects and no callback is called: nothing
\* of connect() observes it
OpenRejected(k) ==
    /\ sessions[k] = "opening"
    /\ sessions' = [sessions EXCEPT ![k] = "failed"]
    /\ errorLogs' = errorLogs + Len(SelectSeq(deferredTexts, LAMBDA x : x.to = k))
    /\ deferredTexts' = SelectSeq(deferredTexts, LAMBDA x : x.to # k)
    /\ UNCHANGED <<now, propVars, reactVars, refVars, inputContexts, outputContexts, processors,
                   sources, procVars, deferredFrames, sentFrames, toolVars,
                   speechEndedAt, interruptsHandled, chatVars, sentTexts, nTexts>>

\* callbacks.onerror: disconnect()
OnError(k) ==
    /\ sessions[k] \in {"opening", "open"}
    /\ sessions' = [sessions EXCEPT ![k] = "errored"]
    /\ CleanupBegin(connectionState)
    /\ CleanupFrame
    /\ UNCHANGED <<connects, nConnects>>

\* callbacks.onclose: disconnect()
OnClose(k) ==
    /\ sessions[k] \in {"opening", "open", "errored"}
    /\ sessions' = [sessions EXCEPT ![k] = "closed"]
    /\ CleanupBegin(connectionState)
    /\ CleanupFrame
    /\ UNCHANGED <<connects, nConnects>>

\* ---- playback ----

Max(a, b) == IF a >= b THEN a ELSE b

\* the playback state one run of onmessage reads and writes
Playback == [sources |-> sources, active |-> activeSourcesRef,
             next |-> nextStartTimeRef, speaking |-> isSpeaking]

\* const startTime = Math.max(now, nextStartTimeRef.current)
StartTime(ctxNow, next) == Max(ctxNow, next)

\* one decoded buffer: source.start(startTime), the clock advances, the
\* source joins the active set, setIsSpeaking(true)
Schedule(ps, sess, dur, ctx) ==
    LET startTime == StartTime(CurrentTime(ctx), ps.next)
        src == [sess |-> sess, start |-> startTime, dur |-> dur, ctx |-> ctx,
                epoch |-> interruptsHandled, stopped |-> FALSE, ended |-> FALSE]
    IN [sources |-> Append(ps.sources, src),
        active |-> ps.active \cup {Len(ps.sources) + 1},
        next |-> startTime + dur,
        speaking |-> TRUE]

\* Flush with the playback clock left where it was
FlushKeepsClock(ps) ==
    [sources |-> [i \in DOMAIN ps.sources |->
                    IF i \in ps.active
                      THEN [ps.sources[i] EXCEPT !.stopped = TRUE]
                      ELSE ps.sources[i]],
     active |-> {},
     next |-> ps.next,
     speaking |-> FALSE]

\* if (message.serverContent?.interrupted) { ... }
Flush(ps) ==
    [sources |-> [i \in DOMAIN ps.sources |->
                    IF i \in ps.active
                      THEN [ps.sources[i] EXCEPT !.stopped = TRUE]
                      ELSE ps.sources[i]],
     active |-> {},
     next |-> OutputTimeOrZero,
     speaking |-> FALSE]

SetPlayback(ps) ==
    /\ sources' = ps.sources
    /\ activeSourcesRef' = ps.active
    /\ nextStartTimeRef' = ps.next
    /\ isSpeaking' = ps.speaking
    /\ speechEndedAt' = IF isSpeaking /\ ~ps.speaking THEN DateNow ELSE speechEndedAt

\* OnEnded that signals the end of speech whatever is left in the active set
OnEndedAlwaysSilences(i) ==
    /\ i \in DOMAIN sources
    /\ ~sources[i].ended
    /\ \/ sources[i].stopped
       \/ /\ outputContexts[sources[i].ctx].state = "running"
          /\ CurrentTime(sources[i].ctx) >= sources[i].start + sources[i].dur
    /\ sources' = [sources EXCEPT ![i].ended = TRUE]
    /\ activeSourcesRef' = activeSourcesRef \ {i}
    /\ isSpeaking' = FALSE
    /\ lastSpeechEndTimeRef' = DateNow
    /\ speechEndedAt' = IF isSpeaking THEN DateNow ELSE speechEndedAt
    /\ UNCHANGED <<now, propVars, connectionState, connectionStateSeen, isSpeakingRef,
                   isMusicPlaying, isMusicPlayingRef, inputAudioContextRef,
                   outputAudioContextRef, scriptProcessorRef, sessionPromiseRef,
                   nextStartTimeRef, inputContexts, outputContexts, processors,
                   sessions, procVars, deferredFrames, sentFrames, toolVars,
                   interruptsHandled, chatVars, textVars>>

\* source.onended: fired when the buffer has played out or was stopped
OnEnded(i) ==
    /\ i \in DOMAIN sources
    /\ ~sources[i].ended
    /\ \/ sources[i].stopped
       \/ /\ outputContexts[sources[i].ctx].state = "running"
          /\ CurrentTime(sources[i].ctx) >= sources[i].start + sources[i].dur
    /\ sources' = [sources EXCEPT ![i].ended = TRUE]
    /\ activeSourcesRef' = activeSourcesRef \ {i}
    /\ IF activeSourcesRef \ {i} = {}
         THEN /\ isSpeaking' = FALSE
              /\ lastSpeechEndTimeRef' = DateNow
              /\ speechEndedAt' = IF isSpeaking THEN DateNow ELSE speechEndedAt
         ELSE UNCHANGED <<isSpeaking, lastSpeechEndTimeRef, speechEndedAt>>
    /\ UNCHANGED <<now, propVars, connectionState, connectionStateSeen, isSpeakingRef,
                   isMusicPlaying, isMusicPlayingRef, inputAudioContextRef,
                   outputAudioContextRef, scriptProcessorRef, sessionPromiseRef,
                   nextStartTimeRef, inputContexts, outputContexts, processors,
                   sessions, procVars, deferredFrames, sentFrames, toolVars,
                   interruptsHandled, chatVars, textVars>>

\* ---- capture ----

\* the three gates of processor.onaudioprocess
GateOpen ==
    /\ ~isMusicPlayingRef
    /\ ~isSpeakingRef
    /\ ~(DateNow - lastSpeechEndTimeRef < Cooldown)

\* what is recorded of a forwarded frame: the session it goes to, and what
\* isSpeaking and the time since speech ended were when it was captured
Frame == [sess |-> sessionPromiseRef, speaking |-> isSpeaking,
          cooled |-> DateNow - speechEndedAt >= Cooldown]

\* processor.onaudioprocess of a processor that is still running
OnAudioProcess(p) ==
    /\ processors[p].state = "connected"
    /\ inputContexts[processors[p].ctx] = "running"
    /\ GateOpen
    /\ sessionPromiseRef # 0
    /\ sessions[sessionPromiseRef] \in {"opening", "open"}
    /\ IF sessions[sessionPromiseRef] = "open"
         THEN /\ sentFrames' = sentFrames \cup {Frame}
              /\ UNCHANGED deferredFrames
         ELSE /\ deferredFrames' = deferredFrames \cup {Frame}
              /\ UNCHANGED sentFrames
    /\ UNCHANGED <<now, propVars, reactVars, refVars, objVars, procVars, toolVars,
                   speechEndedAt, interruptsHandled, chatVars, textVars>>

\* ---- tool calls ----

\* The handlers, by what the dispatcher does with them: rememberNote runs
\* synchronously, searchGoogleDrive awaits the injected searchDriveFiles,
\* openUrl tests its integration flag before it opens the tab, and a name
\* that matches no branch leaves result at its initial "Done".
\* call.supplied tells whether the collaborator the handler uses
\* (onNoteRemembered, searchDriveFiles) has been passed to the hook.
AsyncTools == {"searchGoogleDrive"}

\* the names among ToolNames the chain of "if (fc.name === ...)" has a
\* branch for
RegisteredTools == {"rememberNote", "searchGoogleDrive"}

IsAsync(call) == call.name \in AsyncTools /\ call.supplied

\* ToolResult with a catch block that swallows the error
ToolResultLosesError(call) ==
    IF call.name = "rememberNote" THEN "Note saved!"
    ELSE IF call.name = "searchGoogleDrive"
      THEN IF call.supplied THEN "[files]" ELSE "Disabled"
    ELSE IF call.name = "openUrl"
      THEN IF integrationsConfig.openTabs THEN "Opened" ELSE "Disabled"
    ELSE "Done"

\* result after the try/catch around one call; a call that throws throws
\* an Error whose message is "failed"
ToolResult(call) ==
    IF call.throws THEN "Error: failed"
    ELSE IF call.name = "rememberNote" THEN "Note saved!"
    ELSE IF call.name = "searchGoogleDrive"
      THEN IF call.supplied THEN "[files]" ELSE "Disabled"
    ELSE IF call.name = "openUrl"
      THEN IF integrationsConfig.openTabs THEN "Opened" ELSE "Disabled"
    ELSE "Done"

\* Response with the response of a call that threw left without its id
ResponseDropsIdOnError(call) ==
    [id |-> IF call.throws THEN "" ELSE call.id, name |-> call.name,
     result |-> ToolResult(call)]

\* responses.push({ id: fc.id, name: fc.name, response: { result } })
Response(call) == [id |-> call.id, name |-> call.name, result |-> ToolResult(call)]

\* RunCalls that takes the loop as finished after its first call
RunCallsAnswersFirst(calls, responses) ==
    [calls |-> <<>>,
     responses |-> IF calls = <<>> \/ IsAsync(Head(calls)) THEN responses
                   ELSE Append(responses, Response(Head(calls)))]

\* the for loop over functionCalls up to its next await or its end
RECURSIVE RunCalls(_, _)
RunCalls(calls, responses) ==
    IF calls = <<>> \/ IsAsync(Head(calls))
      THEN [calls |-> calls, responses |-> responses]
      ELSE RunCalls(Tail(calls), Append(responses, Response(Head(calls))))

\* if (responses.length > 0 && sessionPromiseRef.current)
SendGuard(responses) == Len(responses) > 0 /\ sessionPromiseRef # 0

\* sessionPromiseRef.current.then(s => s.sendToolResponse(...)): sent at once
\* on a resolved session, chained on one that is still opening, and never
\* sent on one that failed or has closed.  tb is toolBatches as the run of
\* the handler has left it so far.
SendToolResponses(hr, tb) ==
    LET out == [batch |-> hr.batch, to |-> sessionPromiseRef, responses |-> hr.responses]
    IN IF hr.batch = 0
         THEN /\ toolBatches' = tb
              /\ UNCHANGED <<sentToolResponses, deferredToolResponses>>
         ELSE /\ toolBatches' = [tb EXCEPT ![hr.batch].done = TRUE,
                                            ![hr.batch].eventsDone = transcriptEvents,
                                            ![hr.batch].up = (sessionPromiseRef = hr.sess
                                                              /\ sessions[hr.sess] = "open")]
              /\ IF SendGuard(hr.responses) /\ sessions[sessionPromiseRef] = "open"
                   THEN /\ sentToolResponses' = Append(sentToolResponses, out)
                        /\ UNCHANGED deferredToolResponses
                   ELSE IF SendGuard(hr.responses) /\ sessions[sessionPromiseRef] = "opening"
                   THEN /\ deferredToolResponses' = Append(deferredToolResponses, out)
                        /\ UNCHANGED sentToolResponses
                   ELSE UNCHANGED <<sentToolResponses, deferredToolResponses>>

\* ---- transcripts ----

\* A string is the sequence of its characters. String.prototype.trim()
\* removes the white space at both ends.
RECURSIVE TrimStart(_)
TrimStart(s) == IF s # <<>> /\ Head(s) = " " THEN TrimStart(Tail(s)) ELSE s

RECURSIVE TrimEnd(_)
TrimEnd(s) == IF s # <<>> /\ s[Len(s)] = " " THEN TrimEnd(SubSeq(s, 1, Len(s) - 1)) ELSE s

Trim(s) == TrimEnd(TrimStart(s))

\* the transcript state one run of onmessage reads and writes
Transcripts == [user |-> currentInputTranscriptRef, model |-> currentOutputTranscriptRef,
                chat |-> chatMessages]

\* Accumulate with the two accumulators mixed up
AccumulateCrossed(ts, m) ==
    [ts EXCEPT !.user = @ \o m.outputTranscription, !.model = @ \o m.inputTranscription]

\* current...TranscriptRef.current += serverContent...Transcription.text || ""
Accumulate(ts, m) ==
    [ts EXCEPT !.user = @ \o m.inputTranscription, !.model = @ \o m.outputTranscription]

\* FlushRole that hands the message over and keeps the accumulator
FlushRoleKeepsBuffer(ts, role) ==
    IF Trim(ts[role]) # <<>>
      THEN [ts EXCEPT !.chat = Append(@, [role |-> role, text |-> Trim(ts[role])])]
      ELSE ts

\* "Flush User Transcript" / "Flush Model Transcript"
FlushRole(ts, role) ==
    IF Trim(ts[role]) # <<>>
      THEN [ts EXCEPT !.chat = Append(@, [role |-> role, text |-> Trim(ts[role])]),
                      ![role] = <<>>]
      ELSE ts

\* if (serverContent?.turnComplete) { ... }
FlushTranscripts(ts) == FlushRole(FlushRole(ts, "user"), "model")

\* DiscardTranscripts that clears the user's accumulator only
DiscardUserOnly(ts) == [ts EXCEPT !.user = <<>>]

\* the interrupted branch: both accumulators are set to ""
DiscardTranscripts(ts) == [ts EXCEPT !.user = <<>>, !.model = <<>>]

\* the interrupted flag of a run of onmessage is handled in this step
InterruptHandled == interruptsHandled' > interruptsHandled

\* the transcript state a step of onmessage leaves, and what has been heard
\* since the accumulators were last flushed or discarded
SetTranscripts(ts, hd) ==
    LET out == IF InterruptHandled THEN DiscardTranscripts(ts) ELSE ts
    IN /\ currentInputTranscriptRef' = out.user
       /\ currentOutputTranscriptRef' = out.model
       /\ chatMessages' = out.chat
       /\ heard' = IF InterruptHandled THEN NoText ELSE hd

\* a message that carries transcription text or ends the turn
HasTranscript(m) ==
    m.inputTranscription # <<>> \/ m.outputTranscription # <<>> \/ m.turnComplete

\* the kind of the last event that touched the transcripts, and of the one
\* before it
SetLastEvent(kind) ==
    /\ lastEvent' = IF kind = "none" THEN lastEvent ELSE kind
    /\ eventBefore' = IF kind = "none" THEN eventBefore ELSE lastEvent

\* a message none of the conditions of onmessage is true of
Unrecognized(m) ==
    /\ ~m.toolCall /\ m.parts = <<>> /\ ~m.interrupted /\ ~m.turnComplete
    /\ m.inputTranscription = <<>> /\ m.outputTranscription = <<>>

\* the head of onmessage: transcription deltas and the end of the turn
TranscriptPhase(m) ==
    LET acc == Accumulate(Transcripts, m)
        hd == [user |-> heard.user \o m.inputTranscription,
               model |-> heard.model \o m.outputTranscription]
    IN /\ HasTranscript(m) => transcriptEvents < MaxTranscriptEvents
       /\ Unrecognized(m) => unknownEvents < MaxUnknown
       /\ unknownEvents' = IF Unrecognized(m) THEN unknownEvents + 1 ELSE unknownEvents
       /\ transcriptEvents' = IF HasTranscript(m) THEN transcriptEvents + 1
                              ELSE transcriptEvents
       /\ flushed' = IF m.turnComplete THEN hd ELSE flushed
       /\ SetLastEvent(IF m.turnComplete THEN "turnComplete"
                       ELSE IF InterruptHandled THEN "interrupted"
                       ELSE IF HasTranscript(m) THEN "delta"
                       ELSE "none")
       /\ SetTranscripts(IF m.turnComplete THEN FlushTranscripts(acc) ELSE acc,
                         IF m.turnComplete THEN NoText ELSE hd)

\* the tail of onmessage after an await: the interrupted flag
TranscriptTail ==
    /\ SetTranscripts(Transcripts, heard)
    /\ SetLastEvent(IF InterruptHandled THEN "interrupted" ELSE "none")
    /\ UNCHANGED <<flushed, transcriptEvents, unknownEvents>>

\* ---- onmessage ----

\* the run h of onmessage, which arrived as number seq, is over: the runs
\* that arrived after it move up
Retire(h, seq) ==
    [g \in HandlerIds |->
        IF g = h THEN IdleHandler
        ELSE IF handlers[g].seq > seq THEN [handlers[g] EXCEPT !.seq = @ - 1]
        ELSE handlers[g]]

\* the end of onmessage: the interrupted flag
FinishMessage(h, hr, ps) ==
    /\ handlers' = Retire(h, hr.seq)
    /\ SetPlayback(IF hr.interrupted THEN Flush(ps) ELSE ps)
    /\ interruptsHandled' = IF hr.interrupted THEN interruptsHandled + 1
                            ELSE interruptsHandled

\* the loop over modelTurn.parts up to "await decodeAudioData" or its end;
\* a part is skipped when outputAudioContextRef.current is null
AudioPhase(h, hr, ps) ==
    IF hr.parts # <<>> /\ outputAudioContextRef # 0
      THEN /\ handlers' = [handlers EXCEPT ![h] =
                             [hr EXCEPT !.pc = "decode", !.ctx = outputAudioContextRef]]
           /\ SetPlayback(ps)
           /\ UNCHANGED interruptsHandled
      ELSE FinishMessage(h, hr, ps)

\* the tool-call block up to its next await, or through to the send and on
ToolPhase(h, hr, ps, tb) ==
    LET r == RunCalls(hr.calls, hr.responses)
        hr2 == [hr EXCEPT !.calls = r.calls, !.responses = r.responses]
    IN IF r.calls # <<>>
         THEN /\ handlers' = [handlers EXCEPT ![h] = [hr2 EXCEPT !.pc = "tool"]]
              /\ SetPlayback(ps)
              /\ toolBatches' = tb
              /\ UNCHANGED <<interruptsHandled, sentToolResponses, deferredToolResponses>>
         ELSE /\ SendToolResponses(hr2, tb)
              /\ AudioPhase(h, hr2, ps)

MessageFrame == UNCHANGED <<now, propVars, connectionState, connectionStateSeen, isSpeakingRef,
                            isMusicPlaying, isMusicPlayingRef, inputAudioContextRef,
                            outputAudioContextRef, scriptProcessorRef, sessionPromiseRef,
                            lastSpeechEndTimeRef, inputContexts, outputContexts,
                            processors, sessions, connects, nConnects, cleanups,
                            nCleanups, deferredFrames, sentFrames, textVars>>

\* the calls of disconnect() that have run to their end
CleanupsDone == Cardinality({c \in CleanupIds : cleanups[c].pc = "done"})

\* onmessage runs one after the other: no run starts while one is suspended
IdleHandlersSerial ==
    IF \A h \in HandlerIds : handlers[h].pc = "idle" THEN HandlerIds ELSE {}

IdleHandlers == {h \in HandlerIds : handlers[h].pc = "idle"}

FreeHandler == CHOOSE h \in IdleHandlers : \A g \in IdleHandlers : h <= g

RECURSIVE PendingParts(_)
PendingParts(h) == IF h = 0 THEN 0 ELSE Len(handlers[h].parts) + PendingParts(h - 1)

PendingInterrupts == Cardinality({h \in HandlerIds : handlers[h].interrupted})

\* a number above those of the runs of onmessage that are under way
NextSeq ==
    LET used == {handlers[h].seq : h \in HandlerIds}
    IN 1 + CHOOSE n \in used : \A l \in used : l <= n

\* callbacks.onmessage for a message m delivered on session k
OnMessage(k, m) ==
    /\ sessions[k] = "open"
    /\ IdleHandlers # {}
    /\ Len(sources) + PendingParts(MaxHandlers) + Len(m.parts) <= MaxSources
    /\ m.interrupted => interruptsHandled + PendingInterrupts < MaxInterrupts
    /\ m.toolCall => Len(toolBatches) < MaxBatches
    /\ LET batch == IF m.toolCall THEN Len(toolBatches) + 1 ELSE 0
           tb == IF m.toolCall
                   THEN Append(toolBatches, [sess |-> k, calls |-> m.calls,
                                             done |-> FALSE, up |-> FALSE,
                                             downs |-> CleanupsDone,
                                             events |-> transcriptEvents,
                                             eventsDone |-> transcriptEvents])
                   ELSE toolBatches
           hr == [pc |-> "idle", sess |-> k, batch |-> batch, calls |-> m.calls,
                  responses |-> <<>>, parts |-> m.parts, ctx |-> 0,
                  interrupted |-> m.interrupted, seq |-> NextSeq,
                  arrived |-> interruptsHandled]
       IN ToolPhase(FreeHandler, hr, Playback, tb)
    /\ TranscriptPhase(m)
    /\ MessageFrame

\* an awaited tool handler settles (resolves, or rejects into the catch)
ToolSettled(h) ==
    /\ handlers[h].pc = "tool"
    /\ LET hr == handlers[h]
           hr2 == [hr EXCEPT !.responses = Append(@, Response(Head(hr.calls))),
                             !.calls = Tail(@)]
       IN ToolPhase(h, hr2, Playback, toolBatches)
    /\ TranscriptTail
    /\ MessageFrame

\* the duration that stands for a payload that cannot be decoded:
\* base64ToBytes or decodeAudioData throws on it
Undecodable == -1

\* await decodeAudioData settles: the buffer is scheduled and the loop goes on
DecodeDone(h) ==
    /\ handlers[h].pc = "decode"
    /\ Head(handlers[h].parts) # Undecodable
    /\ LET hr == handlers[h]
           ps == Schedule(Playback, hr.sess, Head(hr.parts), hr.ctx)
       IN AudioPhase(h, [hr EXCEPT !.parts = Tail(@)], ps)
    /\ UNCHANGED toolVars
    /\ TranscriptTail
    /\ MessageFrame

\* decoding throws: nothing in onmessage catches it, so the run ends there
\* with its promise rejected; the parts after it, the grounding metadata and
\* the interrupted flag of the message are not looked at, and nothing is
\* logged
DecodeFailed(h) ==
    /\ handlers[h].pc = "decode"
    /\ Head(handlers[h].parts) = Undecodable
    /\ handlers' = Retire(h, handlers[h].seq)
    /\ UNCHANGED <<sources, activeSourcesRef, nextStartTimeRef, isSpeaking,
                   speechEndedAt, interruptsHandled, toolVars, chatVars>>
    /\ MessageFrame

\* ---- sendTextMessage ----

\* what the caller types
Texts == {<<"h", "i">>}

\* the guard of sendTextMessage
SendTextGuard == sessionPromiseRef # 0

\* sendTextMessage(text), with the onChatUpdate the application passes: the
\* send is chained on the session promise, so it runs at once on an open
\* session, waits for one that is still opening, and ends in the catch
\* (an error log entry) on one that failed to open; on a transport that
\* has closed the send is lost, with or without an exception for the catch.
SendTextMessage(text) ==
    /\ nTexts < MaxTexts
    /\ nTexts' = nTexts + 1
    /\ IF ~SendTextGuard
         THEN /\ errorLogs' = errorLogs + 1
              /\ UNCHANGED <<chatMessages, sentTexts, deferredTexts>>
         ELSE /\ chatMessages' = Append(chatMessages, [role |-> "user", text |-> text])
              /\ LET out == [to |-> sessionPromiseRef, text |-> text]
                     state == sessions[sessionPromiseRef]
                 IN IF state = "open"
                      THEN /\ sentTexts' = Append(sentTexts, out)
                           /\ UNCHANGED <<deferredTexts, errorLogs>>
                    ELSE IF state = "opening"
                      THEN /\ deferredTexts' = Append(deferredTexts, out)
                           /\ UNCHANGED <<sentTexts, errorLogs>>
                    ELSE IF state = "failed"
                      THEN /\ errorLogs' = errorLogs + 1
                           /\ UNCHANGED <<sentTexts, deferredTexts>>
                    ELSE /\ \E thrown \in BOOLEAN :
                              errorLogs' = IF thrown THEN errorLogs + 1 ELSE errorLogs
                         /\ UNCHANGED <<sentTexts, deferredTexts>>
    /\ UNCHANGED <<now, propVars, reactVars, refVars, objVars, procVars, deferredFrames,
                   sentFrames, toolVars, speechEndedAt, interruptsHandled,
                   currentInputTranscriptRef, currentOutputTranscriptRef, heard,
                   flushed, lastEvent, eventBefore, transcriptEvents, unknownEvents>>

\* ---- inbound messages ----

Durations == {350, 700}

PartSeqs == {<<>>} \cup {<<d>> : d \in Durations}
              \cup {<<d, e>> : d \in Durations, e \in Durations}

\* serverContent with audio parts and, possibly, the interrupted flag
AudioMessages ==
    {[toolCall |-> FALSE, calls |-> <<>>, parts |-> p, interrupted |-> i,
      inputTranscription |-> <<>>, outputTranscription |-> <<>>,
      turnComplete |-> FALSE] :
        p \in PartSeqs, i \in BOOLEAN} \
    {[toolCall |-> FALSE, calls |-> <<>>, parts |-> <<>>, interrupted |-> FALSE,
      inputTranscription |-> <<>>, outputTranscription |-> <<>>,
      turnComplete |-> FALSE]}

ToolNames == {"rememberNote", "searchGoogleDrive", "unknownFn"}

ToolCalls(id) ==
    {[id |-> id, name |-> n, throws |-> t, supplied |-> TRUE] :
        n \in ToolNames, t \in BOOLEAN} \
    {[id |-> id, name |-> "unknownFn", throws |-> TRUE, supplied |-> TRUE]}

CallSeqs == {<<>>} \cup {<<c>> : c \in ToolCalls("a")}
              \cup {<<c, d>> : c \in ToolCalls("a"), d \in ToolCalls("b")}

\* toolCall with its functionCalls
ToolMessages ==
    {[toolCall |-> TRUE, calls |-> c, parts |-> <<>>, interrupted |-> FALSE,
      inputTranscription |-> <<>>, outputTranscription |-> <<>>,
      turnComplete |-> FALSE] :
        c \in CallSeqs}

\* calls of the registered tools with or without their collaborator; a
\* handler whose collaborator is absent evaluates nothing that can throw
CollabCalls(id) ==
    {[id |-> id, name |-> n, throws |-> FALSE, supplied |-> s] :
        n \in RegisteredTools, s \in BOOLEAN}

\* toolCall of one or two such calls
CollabMessages ==
    {[toolCall |-> TRUE, calls |-> c, parts |-> <<>>, interrupted |-> FALSE,
      inputTranscription |-> <<>>, outputTranscription |-> <<>>,
      turnComplete |-> FALSE] :
        c \in {<<x>> : x \in CollabCalls("a")}
                 \cup {<<x, y>> : x \in CollabCalls("a"), y \in CollabCalls("b")}}

\* calls of the tools of an integration: the Drive search, whose handler
\* looks for its collaborator, and openUrl, whose handler looks at the flag
FlagCalls ==
    {[id |-> "a", name |-> n, throws |-> FALSE, supplied |-> TRUE] :
        n \in {"searchGoogleDrive", "openUrl"}}

\* toolCall of one such call
FlagMessages ==
    {[toolCall |-> TRUE, calls |-> <<c>>, parts |-> <<>>, interrupted |-> FALSE,
      inputTranscription |-> <<>>, outputTranscription |-> <<>>,
      turnComplete |-> FALSE] :
        c \in FlagCalls}

\* the text of a transcription delta: none, white space, or a word between
\* blanks
Deltas == {<<>>, <<" ">>, <<" ", "a", " ">>}

\* how a serverContent ends the turn, if it does
Endings == {"none", "turnComplete", "interrupted"}

\* serverContent with a transcription delta of one role, turnComplete or
\* interrupted
TranscriptMessages ==
    {m \in {[toolCall |-> FALSE, calls |-> <<>>, parts |-> <<>>,
             interrupted |-> (e = "interrupted"),
             inputTranscription |-> i, outputTranscription |-> o,
             turnComplete |-> (e = "turnComplete")] :
                i \in Deltas, o \in Deltas, e \in Endings} :
        /\ m.inputTranscription = <<>> \/ m.outputTranscription = <<>>
        /\ HasTranscript(m) \/ m.turnComplete \/ m.interrupted}

\* a message of a shape onmessage has no branch for (setupComplete, say)
UnknownMessage ==
    [toolCall |-> FALSE, calls |-> <<>>, parts |-> <<>>, interrupted |-> FALSE,
     inputTranscription |-> <<>>, outputTranscription |-> <<>>, turnComplete |-> FALSE]

\* one message of each shape: an audio part, a transcription delta, the end
\* of a turn, an interruption, a tool call, and the unknown one
DispatchMessages ==
    {m \in AudioMessages : /\ Len(m.parts) = 1 /\ ~m.interrupted
                            /\ \A d \in Durations : m.parts[1] <= d}
      \cup {m \in AudioMessages : m.parts = <<>>}
      \cup {m \in TranscriptMessages :
               /\ ~m.interrupted /\ m.outputTranscription = <<>>
               /\ m.inputTranscription # <<" ">>
               /\ m.turnComplete => m.inputTranscription = <<>>}
      \cup {m \in ToolMessages : /\ Len(m.calls) = 1 /\ ~m.calls[1].throws
                                  /\ m.calls[1].name \in RegisteredTools}
      \cup {UnknownMessage}

\* the events that may arrive while a handler is pending: a transcription
\* delta, the end of a turn, an interruption, an audio part
OtherEvents == {m \in DispatchMessages : ~m.toolCall /\ ~Unrecognized(m)}

\* serverContent whose audio parts may be undecodable, with or without
\* the interrupted flag
DecodeMessages ==
    {[toolCall |-> FALSE, calls |-> <<>>, parts |-> p, interrupted |-> i,
      inputTranscription |-> <<>>, outputTranscription |-> <<>>,
      turnComplete |-> FALSE] :
        p \in {<<Undecodable>>, <<Undecodable, TickMs>>, <<TickMs, Undecodable>>,
               <<TickMs>>},
        i \in BOOLEAN}

\* ---- specifications ----

\* The session lifecycle: connect(), disconnect(), the microphone, the
\* transport callbacks and React's renders.
Next ==
    \/ Connect
    \/ Disconnect
    \/ \E k \in Connects : MicGranted(k)
    \/ \E k \in Connects : MicDenied(k)
    \/ \E k \in Connects : OnOpen(k)
    \/ \E k \in Connects : OpenRejected(k)
    \/ \E k \in Connects : OnError(k)
    \/ \E k \in Connects : OnClose(k)
    \/ \E c \in CleanupIds : CleanupResumeInput(c)
    \/ \E c \in CleanupIds : CleanupResumeOutput(c)
    \/ Render

Spec == Init /\ [][Next]_vars

\* the first connect() and the first disconnect() of the caller
ConnectFirst == nConnects = 0 /\ Connect

DisconnectFirst == nCleanups = 0 /\ Disconnect

\* Playback in one session that the caller may disconnect: audio parts and
\* interruptions arrive while time passes and buffers end.
NextPlayback ==
    \/ ConnectFirst
    \/ DisconnectFirst
    \/ \E k \in Connects : MicGranted(k)
    \/ \E k \in Connects : OnOpen(k)
    \/ \E c \in CleanupIds : CleanupResumeInput(c)
    \/ \E c \in CleanupIds : CleanupResumeOutput(c)
    \/ Tick(TickMs)
    \/ \E i \in 1..MaxSources : OnEnded(i)
    \/ \E k \in Connects, m \in AudioMessages : OnMessage(k, m)
    \/ \E h \in HandlerIds : DecodeDone(h)

SpecPlayback == Init /\ [][NextPlayback]_vars

\* Playback while connect() may be called again: no teardown, up to
\* MaxConnects sessions.
NextOverlap ==
    \/ Connect
    \/ \E k \in Connects : MicGranted(k)
    \/ \E k \in Connects : OnOpen(k)
    \/ Tick(TickMs)
    \/ \E i \in 1..MaxSources : OnEnded(i)
    \/ \E k \in Connects, m \in AudioMessages : OnMessage(k, m)
    \/ \E h \in HandlerIds : DecodeDone(h)

SpecOverlap == Init /\ [][NextOverlap]_vars

\* The mic gate: capture callbacks against playback, renders and the clock.
NextGate ==
    \/ ConnectFirst
    \/ \E k \in Connects : MicGranted(k)
    \/ \E k \in Connects : OnOpen(k)
    \/ Render
    \/ SetMusicPlaying(TRUE)
    \/ SetMusicPlaying(FALSE)
    \/ Tick(TickMs)
    \/ \E i \in 1..MaxSources : OnEnded(i)
    \/ \E p \in Connects : OnAudioProcess(p)
    \/ \E k \in Connects, m \in AudioMessages : OnMessage(k, m)
    \/ \E h \in HandlerIds : DecodeDone(h)

SpecGate == Init /\ [][NextGate]_vars

\* Tool-call batches in one session that the caller may disconnect.
NextTools ==
    \/ ConnectFirst
    \/ DisconnectFirst
    \/ \E k \in Connects : MicGranted(k)
    \/ \E k \in Connects : OnOpen(k)
    \/ \E k \in Connects : OnClose(k)
    \/ \E c \in CleanupIds : CleanupResumeInput(c)
    \/ \E c \in CleanupIds : CleanupResumeOutput(c)
    \/ \E k \in Connects, m \in ToolMessages : OnMessage(k, m)
    \/ \E h \in HandlerIds : ToolSettled(h)

SpecTools == Init /\ [][NextTools]_vars

\* serverContent that is interrupted and carries one audio part: its run of
\* onmessage is suspended in decodeAudioData before it handles the flag
LateInterrupts == {m \in AudioMessages : m.interrupted /\ Len(m.parts) = 1}

\* Transcripts in one session: deltas, ends of turns and interruptions, and
\* interruptions whose handling is suspended by the decoding of audio.
NextTranscript ==
    \/ ConnectFirst
    \/ \E k \in Connects : MicGranted(k)
    \/ \E k \in Connects : OnOpen(k)
    \/ \E k \in Connects, m \in TranscriptMessages : OnMessage(k, m)
    \/ \E k \in Connects, m \in LateInterrupts : OnMessage(k, m)
    \/ \E h \in HandlerIds : DecodeDone(h)

SpecTranscript == Init /\ [][NextTranscript]_vars

\* Text input against the lifecycle of one connection.
NextText ==
    \/ ConnectFirst
    \/ DisconnectFirst
    \/ \E k \in Connects : MicGranted(k)
    \/ \E k \in Connects : MicDenied(k)
    \/ \E k \in Connects : OnOpen(k)
    \/ \E k \in Connects : OpenRejected(k)
    \/ \E k \in Connects : OnClose(k)
    \/ \E c \in CleanupIds : CleanupResumeInput(c)
    \/ \E c \in CleanupIds : CleanupResumeOutput(c)
    \/ \E x \in Texts : SendTextMessage(x)

SpecText == Init /\ [][NextText]_vars

\* Tool calls against a hook that was given some collaborators and not
\* others.
NextCollab ==
    \/ ConnectFirst
    \/ \E k \in Connects : MicGranted(k)
    \/ \E k \in Connects : OnOpen(k)
    \/ \E k \in Connects, m \in CollabMessages : OnMessage(k, m)
    \/ \E h \in HandlerIds : ToolSettled(h)

SpecCollab == Init /\ [][NextCollab]_vars

\* The dispatch of onmessage: one message of each shape at a time.
NextDispatch ==
    \/ ConnectFirst
    \/ \E k \in Connects : MicGranted(k)
    \/ \E k \in Connects : OnOpen(k)
    \/ \E k \in Connects, m \in DispatchMessages : OnMessage(k, m)
    \/ \E h \in HandlerIds : DecodeDone(h)
    \/ \E h \in HandlerIds : ToolSettled(h)

SpecDispatch == Init /\ [][NextDispatch]_vars

\* toolCall of one call whose handler is awaited
SlowToolMessages ==
    {m \in ToolMessages : Len(m.calls) = 1 /\ IsAsync(m.calls[1]) /\ ~m.calls[1].throws}

\* Tool calls while the caller disconnects and connects again.
NextReconnect ==
    \/ Connect
    \/ Disconnect
    \/ \E k \in Connects : MicGranted(k)
    \/ \E k \in Connects : OnOpen(k)
    \/ \E c \in CleanupIds : CleanupResumeInput(c)
    \/ \E c \in CleanupIds : CleanupResumeOutput(c)
    \/ \E k \in Connects, m \in SlowToolMessages : OnMessage(k, m)
    \/ \E h \in HandlerIds : ToolSettled(h)

SpecReconnect == Init /\ [][NextReconnect]_vars

\* Events of the other shapes while a tool handler is awaited.
NextConcurrent ==
    \/ ConnectFirst
    \/ \E k \in Connects : MicGranted(k)
    \/ \E k \in Connects : OnOpen(k)
    \/ \E k \in Connects, m \in SlowToolMessages \cup OtherEvents : OnMessage(k, m)
    \/ \E h \in HandlerIds : DecodeDone(h)
    \/ \E h \in HandlerIds : ToolSettled(h)

SpecConcurrent == Init /\ [][NextConcurrent]_vars

\* Audio whose decoding may fail, in one session.
NextDecode ==
    \/ ConnectFirst
    \/ \E k \in Connects : MicGranted(k)
    \/ \E k \in Connects : OnOpen(k)
    \/ Tick(TickMs)
    \/ \E i \in 1..MaxSources : OnEnded(i)
    \/ \E k \in Connects, m \in DecodeMessages : OnMessage(k, m)
    \/ \E h \in HandlerIds : DecodeDone(h)
    \/ \E h \in HandlerIds : DecodeFailed(h)

SpecDecode == Init /\ [][NextDecode]_vars

\* Capture against the lifecycle: frames are captured while the transport
\* is opening or open and the caller disconnects and connects again.
NextCapture ==
    \/ Connect
    \/ Disconnect
    \/ \E k \in Connects : MicGranted(k)
    \/ \E k \in Connects : OnOpen(k)
    \/ \E c \in CleanupIds : CleanupResumeInput(c)
    \/ \E c \in CleanupIds : CleanupResumeOutput(c)
    \/ Render
    \/ \E p \in Connects : OnAudioProcess(p)

SpecCapture == Init /\ [][NextCapture]_vars

\* what is heard of the user in a turn: a word, then the end of the turn
TurnMessages ==
    {m \in TranscriptMessages :
        /\ ~m.interrupted /\ m.outputTranscription = <<>>
        /\ m.inputTranscription # <<" ">>
        /\ m.turnComplete => m.inputTranscription = <<>>}

\* Transcripts while the caller disconnects and connects again.
NextSessions ==
    \/ Connect
    \/ Disconnect
    \/ \E k \in Connects : MicGranted(k)
    \/ \E k \in Connects : OnOpen(k)
    \/ \E c \in CleanupIds : CleanupResumeInput(c)
    \/ \E c \in CleanupIds : CleanupResumeOutput(c)
    \/ Render
    \/ \E k \in Connects, m \in TurnMessages : OnMessage(k, m)

SpecSessions == Init /\ [][NextSessions]_vars

\* One connect() and what the microphone and the transport answer, while
\* time passes.
NextHandshake ==
    \/ ConnectFirst
    \/ \E k \in Connects : MicGranted(k)
    \/ \E k \in Connects : MicDenied(k)
    \/ \E k \in Connects : OnOpen(k)
    \/ \E k \in Connects : OpenRejected(k)
    \/ \E k \in Connects : OnError(k)
    \/ \E k \in Connects : OnClose(k)
    \/ \E c \in CleanupIds : CleanupResumeInput(c)
    \/ \E c \in CleanupIds : CleanupResumeOutput(c)
    \/ Render
    \/ Tick(TickMs)

\* getUserMedia settles
MicSettles == \E k \in Connects : MicGranted(k) \/ MicDenied(k)

\* the handshake of the transport succeeds or fails
HandshakeSettles == \E k \in Connects : OnOpen(k) \/ OpenRejected(k) \/ OnError(k)

\* a close() that cleanup awaits settles
CloseSettles == \E c \in CleanupIds : CleanupResumeInput(c) \/ CleanupResumeOutput(c)

\* The microphone request, the handshake and the closing of a context each
\* settle in the end, and React renders after a state change.
SpecHandshake ==
    /\ Init /\ [][NextHandshake]_vars
    /\ WF_vars(MicSettles)
    /\ WF_vars(HandshakeSettles)
    /\ WF_vars(CloseSettles)
    /\ WF_vars(Render)

\* the integration flags the settings can hold
Configs == [workspace : BOOLEAN, openTabs : BOOLEAN, personalizedSearch : BOOLEAN]

\* the hook with any settings, signed in or not, with or without a search
\* engine id
InitConfig ==
    /\ InitSession
    /\ integrationsConfig \in Configs
    /\ accessToken \in BOOLEAN
    /\ customSearchCx \in BOOLEAN

\* A session under each configuration, and the tool calls of the
\* integrations.
NextConfig ==
    \/ ConnectFirst
    \/ \E k \in Connects : MicGranted(k)
    \/ \E k \in Connects : OnOpen(k)
    \/ \E k \in Connects, m \in FlagMessages : OnMessage(k, m)
    \/ \E h \in HandlerIds : ToolSettled(h)

SpecConfig == InitConfig /\ [][NextConfig]_vars

\* ---- claims ----

\* C1: two buffers A, B of one session, A scheduled before B on the same
\* output timeline with no interruption handled between them, never overlap:
\* start(B) >= start(A) + duration(A); so the starts are non-decreasing.
C1_NoOverlap ==
    \A i, j \in DOMAIN sources :
        (/\ i < j
         /\ sources[i].sess = sources[j].sess
         /\ sources[i].ctx = sources[j].ctx
         /\ sources[i].epoch = sources[j].epoch)
        => sources[j].start >= sources[i].start + sources[i].dur

\* C2: no frame is forwarded to the transport while isSpeaking is true, nor
\* within Cooldown ms after isSpeaking last became false.
C2_MicGate == \A f \in sentFrames : ~f.speaking /\ f.cooled

\* the response batches sent for batch b
SentFor(b) == {i \in DOMAIN sentToolResponses : sentToolResponses[i].batch = b}

\* batch b has exactly one response batch, with one response per request:
\* every request id once, under the request's name, with a string result
Answered(b) ==
    /\ Cardinality(SentFor(b)) = 1
    /\ \A i \in SentFor(b) :
         LET r == sentToolResponses[i].responses
             c == toolBatches[b].calls
         IN /\ Len(r) = Len(c)
            /\ \A n \in DOMAIN c :
                 /\ Cardinality({m \in DOMAIN r : r[m].id = c[n].id}) = 1
                 /\ \A m \in DOMAIN r : r[m].id = c[n].id => r[m].name = c[n].name
            /\ \A m \in DOMAIN r : r[m].result \in STRING

\* C3 as stated: every batch whose handling has ended while its session was
\* the open session of the hook has exactly one response batch, complete;
\* and no batch ever has two.
C3_EveryBatchAnswered ==
    \A b \in DOMAIN toolBatches :
        /\ Cardinality(SentFor(b)) <= 1
        /\ (toolBatches[b].done /\ toolBatches[b].up) => Answered(b)

\* C3 amended: the same for every batch of at least one request; a batch of
\* no requests is answered with no message.
C3_NonEmptyBatchAnswered ==
    \A b \in DOMAIN toolBatches :
        /\ Cardinality(SentFor(b)) <= 1
        /\ (toolBatches[b].done /\ toolBatches[b].up /\ Len(toolBatches[b].calls) >= 1)
             => Answered(b)
        /\ (toolBatches[b].done /\ Len(toolBatches[b].calls) = 0) => SentFor(b) = {}

\* a batch of two requests, one handler awaited and one that threw, answered
C3_Witness ==
    \E b \in DOMAIN toolBatches :
        /\ toolBatches[b].done /\ toolBatches[b].up
        /\ Len(toolBatches[b].calls) = 2
        /\ \E n \in 1..2 : toolBatches[b].calls[n].throws
        /\ \E n \in 1..2 : IsAsync(toolBatches[b].calls[n])
        /\ SentFor(b) # {}

\* C4: the step that handles an interrupted event leaves the active set
\* empty, every buffer that was active (or was scheduled by the same event)
\* stopped, isSpeaking false, and, when there is an output context, the
\* playback clock at the context's current time.
C4_InterruptionFlush ==
    [][interruptsHandled' > interruptsHandled =>
         /\ activeSourcesRef' = {}
         /\ \A i \in DOMAIN sources' :
              ~sources'[i].stopped => (i \in DOMAIN sources /\ i \notin activeSourcesRef)
         /\ ~isSpeaking'
         /\ outputAudioContextRef # 0 =>
              nextStartTimeRef' = CurrentTime(outputAudioContextRef)]_vars

\* an interruption has flushed a buffer that was still playing, after time
\* had passed on the output context
C4_Witness ==
    /\ interruptsHandled > 0
    /\ nCleanups = 0
    /\ activeSourcesRef = {}
    /\ \E i \in DOMAIN sources : sources[i].stopped /\ ~sources[i].ended
    /\ nextStartTimeRef = OutputTimeOrZero
    /\ nextStartTimeRef > 0

\* ---- lifecycle claims ----

\* a call of disconnect() runs to its end in this step
DisconnectCompletes ==
    \E c \in CleanupIds : cleanups[c].pc # "done" /\ cleanups'[c].pc = "done"

\* a processor whose onaudioprocess still fires
CaptureRunning ==
    \E p \in Connects : /\ processors[p].state = "connected"
                        /\ inputContexts[processors[p].ctx] = "running"

\* C5: a connect() call made while the state is Connecting or Connected does
\* nothing: no step starts a connection (contexts, microphone request) in
\* such a state.
C5_ConnectIdempotent ==
    [][nConnects' > nConnects => connectionState \notin {"connecting", "connected"}]_vars

\* C6: when disconnect() completes the state is Disconnected, no capture
\* pipeline runs, the active set is empty and isSpeaking is false.
C6_DisconnectTearsDown ==
    [][DisconnectCompletes =>
         /\ connectionState' = "disconnected"
         /\ ~CaptureRunning'
         /\ activeSourcesRef' = {}
         /\ ~isSpeaking']_vars

\* C7: when disconnect() completes no transport session is left opening or
\* open.
C7_DisconnectClosesTransport ==
    [][DisconnectCompletes =>
         \A k \in Connects : sessions'[k] \notin {"opening", "open"}]_vars

\* a disconnect() called after connect() k had started has completed
TornDown(k) == \E c \in CleanupIds : cleanups[c].pc = "done" /\ cleanups[c].gen >= k

\* C8: once a disconnect() has completed while connect() k was in flight,
\* the transport-open of k does not set the state to Connected and the
\* resumption of k after getUserMedia creates no pipeline and no transport.
C8_ConnectUnwound ==
    [][\A k \in Connects : TornDown(k) =>
         /\ (sessions[k] = "opening" /\ sessions'[k] = "open")
              => connectionState' # "connected"
         /\ connects[k] = "awaitMic" => connects'[k] # "started"]_vars

CleanupRunning == \E c \in CleanupIds : cleanups[c].pc \in {"closeInput", "closeOutput"}

\* C9: once the setup of the latest connect() has failed (getUserMedia or
\* node creation threw, or the transport's promise rejected) and no teardown
\* is still running, the state is Error and nothing is left running.
C9_SetupFailureIsError ==
    (/\ nConnects > 0
     /\ connects[nConnects] = "failed" \/ sessions[nConnects] = "failed"
     /\ ~CleanupRunning)
    => /\ connectionState = "error"
       /\ inputAudioContextRef = 0 /\ outputAudioContextRef = 0
       /\ scriptProcessorRef = 0 /\ ~CaptureRunning
       /\ activeSourcesRef = {}
       /\ \A k \in Connects : sessions[k] \notin {"opening", "open"}

\* C10: once a transport has closed or reported an error, the state leaves
\* Disconnected/Error only in a step in which the caller invokes connect().
C10_NoRevivalAfterClose ==
    [][(/\ \E k \in Connects : sessions[k] \in {"errored", "closed"}
        /\ connectionState \in {"disconnected", "error"}
        /\ connectionState' \notin {"disconnected", "error"})
       => nConnects' > nConnects]_vars

\* ---- tool claims ----

\* C11: every response sent for a request whose name has no handler carries
\* the result "capability disabled".
C11_UnknownIsDisabled ==
    \A i \in DOMAIN sentToolResponses :
        \A m \in DOMAIN sentToolResponses[i].responses :
            sentToolResponses[i].responses[m].name \notin RegisteredTools
              => sentToolResponses[i].responses[m].result = "capability disabled"

\* the response batch i answers every request of its batch, and a request
\* whose handler threw with the result "Error: " and the error's message
ErrorsAnswered(i) ==
    LET r == sentToolResponses[i].responses
        c == toolBatches[sentToolResponses[i].batch].calls
    IN /\ Len(r) = Len(c)
       /\ \A n \in DOMAIN c :
            /\ \E m \in DOMAIN r : r[m].id = c[n].id
            /\ c[n].throws =>
                 \A m \in DOMAIN r : r[m].id = c[n].id => r[m].result = "Error: failed"

\* a step of the tool-call block of onmessage
ToolStep ==
    \/ toolBatches' # toolBatches
    \/ \E h \in HandlerIds : handlers'[h].responses # handlers[h].responses

\* C12: a handler that throws is answered with "Error: <message>", the
\* other requests of its batch are answered too, and no step of the tool
\* block changes the connection state or the playback state.
C12_ErrorIsLocal ==
    [][/\ \A i \in DOMAIN sentToolResponses' : ErrorsAnswered(i)'
       /\ ToolStep => UNCHANGED <<connectionState, isSpeaking, activeSourcesRef,
                                  nextStartTimeRef, sources>>]_vars

\* a sent batch of two requests: the first threw, the second succeeded
C12_Witness ==
    \E i \in DOMAIN sentToolResponses :
        LET c == toolBatches[sentToolResponses[i].batch].calls
            r == sentToolResponses[i].responses
        IN /\ Len(c) = 2 /\ c[1].throws /\ ~c[2].throws
           /\ Len(r) = 2 /\ r[1].result = "Error: failed" /\ r[2].result # "Error: failed"

\* the response messages handed to the session for batch b, sent or chained
\* on a session that is still opening
HandedOver(b) ==
    {<<"sent", i>> : i \in {j \in DOMAIN sentToolResponses : sentToolResponses[j].batch = b}}
      \cup {<<"deferred", i>> : i \in {j \in DOMAIN deferredToolResponses :
                                          deferredToolResponses[j].batch = b}}

ResponsesOf(x) ==
    IF x[1] = "sent" THEN sentToolResponses[x[2]].responses
    ELSE deferredToolResponses[x[2]].responses

\* C13: the responses of a batch are handed over in one message, which
\* holds a response for every request of the batch, and only once no
\* handler of the batch is pending.
C13_NoPartialDelivery ==
    \A b \in DOMAIN toolBatches :
        /\ Cardinality(HandedOver(b)) <= 1
        /\ \A x \in HandedOver(b) :
             /\ Len(ResponsesOf(x)) = Len(toolBatches[b].calls)
             /\ toolBatches[b].done
             /\ \A h \in HandlerIds : handlers[h].batch = b => handlers[h].pc # "tool"

\* a batch whose second request was awaited has been sent
C13_Witness ==
    \E b \in DOMAIN toolBatches :
        /\ Len(toolBatches[b].calls) = 2
        /\ IsAsync(toolBatches[b].calls[2])
        /\ \E i \in DOMAIN sentToolResponses :
             sentToolResponses[i].batch = b /\ Len(sentToolResponses[i].responses) = 2

\* ---- playback claims ----

\* the buffers scheduled before the next one for the same session, on the
\* same output context, with no interruption handled since
Previous(b) ==
    {i \in DOMAIN sources : /\ sources[i].sess = b.sess
                            /\ sources[i].ctx = b.ctx
                            /\ sources[i].epoch = b.epoch}

\* the end of the last of them, 0 when there is none
PreviousEnd(b) ==
    IF Previous(b) = {} THEN 0
    ELSE LET i == CHOOSE j \in Previous(b) : \A k \in Previous(b) : k <= j
         IN sources[i].start + sources[i].dur

\* C18: a buffer that is scheduled while the previous buffer has not yet
\* ended starts exactly at that end, one that is scheduled later starts at
\* the current output time, and the clock is left at its start + duration
\* (unless the same event is an interruption).
C18_SchedulingRule ==
    [][Len(sources') > Len(sources) =>
         LET b == sources'[Len(sources')]
         IN /\ b.start = Max(CurrentTime(b.ctx), PreviousEnd(b))
            /\ interruptsHandled' = interruptsHandled
                 => nextStartTimeRef' = b.start + b.dur]_vars

\* a buffer ends in this step
Ends(i) == i \in DOMAIN sources /\ ~sources[i].ended /\ sources'[i].ended

\* C19: the step in which a buffer ends removes it from the active set;
\* if the set is then empty isSpeaking is false and the cooldown reference
\* is the current time, and otherwise neither has changed.
C19_NaturalCompletion ==
    [][\A i \in 1..MaxSources : Ends(i) =>
         /\ i \notin activeSourcesRef'
         /\ activeSourcesRef' = activeSourcesRef \ {i}
         /\ activeSourcesRef' = {} => ~isSpeaking' /\ lastSpeechEndTimeRef' = DateNow
         /\ activeSourcesRef' # {} => UNCHANGED <<isSpeaking, lastSpeechEndTimeRef>>]_vars

\* the first of two buffers has played out while the second is still
\* active: the speech goes on and no cooldown reference has been recorded
C19_Witness ==
    /\ Len(sources) = 2
    /\ sources[1].ended /\ ~sources[1].stopped
    /\ ~sources[2].ended /\ ~sources[2].stopped
    /\ activeSourcesRef = {2}
    /\ isSpeaking
    /\ lastSpeechEndTimeRef = 0
    /\ now > 0

\* ---- transcript claims ----

\* a turn-complete event is handled in this step
TurnCompleteStep == transcriptEvents' > transcriptEvents /\ lastEvent' = "turnComplete"

\* the transcript messages of the text f heard for the two roles, as the
\* claim states them: one for each text that is not empty
MessagesOf(f) ==
    (IF f.user # <<>> THEN <<[role |-> "user", text |-> f.user]>> ELSE <<>>)
      \o (IF f.model # <<>> THEN <<[role |-> "model", text |-> f.model]>> ELSE <<>>)

\* the same with the white space at both ends of the text left out, and no
\* message for a text that is all white space
TrimmedMessagesOf(f) ==
    (IF Trim(f.user) # <<>> THEN <<[role |-> "user", text |-> Trim(f.user)]>> ELSE <<>>)
      \o (IF Trim(f.model) # <<>> THEN <<[role |-> "model", text |-> Trim(f.model)]>>
          ELSE <<>>)

\* C14 as stated: a turn-complete event emits, for each role whose deltas
\* since the last flush or interruption are not empty, one message with
\* their concatenation, and nothing else.
C14_FlushConcatenates ==
    [][TurnCompleteStep => chatMessages' = chatMessages \o MessagesOf(flushed')]_vars

\* C14 amended: the text of the message is the concatenation without the
\* white space at its ends, and a concatenation that is empty or all white
\* space yields no message.
C14_FlushTrims ==
    [][TurnCompleteStep => chatMessages' = chatMessages \o TrimmedMessagesOf(flushed')]_vars

\* two deltas of the model have been flushed as one message
C14_Witness ==
    /\ lastEvent = "turnComplete"
    /\ flushed.model = <<" ", "a", " ", " ", "a", " ">>
    /\ chatMessages # <<>>
    /\ chatMessages[Len(chatMessages)] = [role |-> "model", text |-> <<"a", " ", " ", "a">>]

\* C15: after a turn-complete event both accumulators are empty.
C15_FlushClears ==
    [][TurnCompleteStep =>
         currentInputTranscriptRef' = <<>> /\ currentOutputTranscriptRef' = <<>>]_vars

\* C16: a turn-complete event that follows a turn-complete event with no
\* delta between or with them emits no message.
C16_FlushIdempotent ==
    [][(TurnCompleteStep /\ lastEvent = "turnComplete" /\ flushed' = NoText)
         => chatMessages' = chatMessages]_vars

\* a second turn-complete event in a row, after the first emitted a message
C16_Witness ==
    /\ lastEvent = "turnComplete" /\ eventBefore = "turnComplete"
    /\ flushed = NoText
    /\ chatMessages # <<>>

C20_SendTextNeedsConnection ==
    [][(nTexts' > nTexts /\ connectionState # "connected") =>
         /\ sentTexts' = sentTexts
         /\ deferredTexts' = deferredTexts
         /\ chatMessages' = chatMessages
         /\ connectionState' = connectionState
         /\ errorLogs' = errorLogs + 1]_vars

\* ---- error handling claims ----

\* the run h of onmessage meets an undecodable payload in this step
DecodeFails(h) ==
    /\ handlers[h].pc = "decode"
    /\ Head(handlers[h].parts) = Undecodable
    /\ handlers'[h] # handlers[h]

\* C21: the step in which a payload fails to decode schedules nothing for
\* it, adds an error log entry, leaves the connection state as it is, and
\* goes on with the rest of the event: the next audio part when there is
\* one and an output context, and otherwise the interrupted flag.
C21_DecodeErrorIsLocal ==
    [][\A h \in HandlerIds : DecodeFails(h) =>
         /\ Len(sources') = Len(sources)
         /\ errorLogs' = errorLogs + 1
         /\ connectionState' = connectionState
         /\ IF Len(handlers[h].parts) > 1 /\ outputAudioContextRef # 0
              THEN /\ handlers'[h].pc = "decode"
                   /\ handlers'[h].parts = Tail(handlers[h].parts)
              ELSE handlers[h].interrupted => InterruptHandled]_vars

\* C22: a call whose collaborator is not supplied is answered with the
\* result "capability disabled", and its batch is answered in full.
C22_AbsentIsDisabled ==
    \A i \in DOMAIN sentToolResponses :
        LET r == sentToolResponses[i].responses
            c == toolBatches[sentToolResponses[i].batch].calls
        IN /\ Len(r) = Len(c)
           /\ \A n \in DOMAIN c :
                ~c[n].supplied => r[n].id = c[n].id /\ r[n].result = "capability disabled"

\* where the message received in this step is routed to
ToPlayback == \E h \in HandlerIds : handlers[h].pc = "idle" /\ handlers'[h].pc = "decode"

ToTranscript == transcriptEvents' > transcriptEvents

ToTools == Len(toolBatches') > Len(toolBatches)

Routes ==
    (IF ToPlayback THEN 1 ELSE 0) + (IF ToTranscript THEN 1 ELSE 0)
      + (IF ToTools THEN 1 ELSE 0) + (IF InterruptHandled THEN 1 ELSE 0)

\* C23: a step of onmessage routes the event to at most one of playback,
\* transcript, tool dispatch and interruption handling; the step that
\* receives an event of unrecognized shape routes it to none, adds a log
\* entry and changes nothing else.
C23_Dispatch ==
    [][/\ Routes <= 1
       /\ unknownEvents' > unknownEvents =>
            /\ Routes = 0
            /\ errorLogs' = errorLogs + 1
            /\ UNCHANGED <<connectionState, refVars, objVars, handlers, toolVars,
                           currentInputTranscriptRef, currentOutputTranscriptRef,
                           chatMessages>>]_vars

\* ---- state machine claims ----

\* the edges of the connection state machine
Edges ==
    {<<"disconnected", "connecting">>, <<"connecting", "connected">>,
     <<"connecting", "error">>, <<"connecting", "disconnected">>,
     <<"connected", "disconnected">>, <<"connected", "error">>,
     <<"error", "connecting">>, <<"error", "disconnected">>}

\* C24: the connection state changes only along the edges of the state
\* machine; in particular never from Disconnected or Error to Connected.
C24_OnlyEdges ==
    [][connectionState' # connectionState =>
         <<connectionState, connectionState'>> \in Edges]_vars

\* the refs and the state as one completed disconnect() leaves them
Released ==
    /\ connectionState = "disconnected"
    /\ inputAudioContextRef = 0 /\ outputAudioContextRef = 0
    /\ scriptProcessorRef = 0 /\ sessionPromiseRef = 0
    /\ activeSourcesRef = {}
    /\ ~isSpeaking

\* C25: no call of disconnect() ends in an error, and when two calls have
\* been made with no connect() between them and neither is still running,
\* the state is the one a single call leaves.
C25_DisconnectIdempotent ==
    /\ \A c \in CleanupIds : cleanups[c].pc # "rejected"
    /\ (/\ nCleanups = 2
        /\ cleanups[1].gen = cleanups[2].gen
        /\ ~CleanupRunning
        /\ \A k \in Connects : connects[k] # "awaitMic" /\ sessions[k] # "opening")
       => Released

\* C26: when disconnect() completes the recorded speech-end time is back
\* at its initial value and isSpeaking, which the gate's ref copies at the
\* next render, is false.
C26_DisconnectClearsGate ==
    [][DisconnectCompletes => lastSpeechEndTimeRef' = 0 /\ ~isSpeaking']_vars

\* ---- concurrency claims ----

\* the handling of batch b ends in this step, after a handler was awaited
HandlingEnds(b) == ~toolBatches[b].done /\ toolBatches'[b].done

\* C27: when the handling of a batch ends and a disconnect() has completed
\* since the batch arrived, no response message for the batch is handed to
\* a session.
C27_LateResultsIgnored ==
    [][\A b \in DOMAIN toolBatches :
         (HandlingEnds(b) /\ CleanupsDone > toolBatches[b].downs)
           => HandedOver(b)' = {}]_vars

\* the bounds of the model leave room for the event m
Room(m) ==
    /\ Cardinality({h \in HandlerIds : handlers[h].pc # "idle"}) < MaxHandlers
    /\ Len(sources) + PendingParts(MaxHandlers) + Len(m.parts) <= MaxSources
    /\ m.interrupted => interruptsHandled + PendingInterrupts < MaxInterrupts
    /\ HasTranscript(m) => transcriptEvents < MaxTranscriptEvents

ToolPending == \E h \in HandlerIds : handlers[h].pc = "tool"

\* C28: while a tool handler is pending, onmessage runs for every other
\* event that arrives on the open session; and the responses of a batch are
\* handed over in one message with a response for each of its requests.
C28_HandlersDoNotBlock ==
    /\ \A k \in Connects, m \in OtherEvents :
         (ToolPending /\ sessions[k] = "open" /\ Room(m)) => ENABLED OnMessage(k, m)
    /\ \A b \in DOMAIN toolBatches :
         /\ Cardinality(HandedOver(b)) <= 1
         /\ \A x \in HandedOver(b) :
              /\ Len(ResponsesOf(x)) = Len(toolBatches[b].calls)
              /\ \A n \in DOMAIN toolBatches[b].calls :
                   ResponsesOf(x)[n].id = toolBatches[b].calls[n].id

\* a batch with an awaited handler has been answered in full, and a
\* transcript event was handled between its arrival and its answer
C28_Witness ==
    \E b \in DOMAIN toolBatches :
        /\ toolBatches[b].done
        /\ IsAsync(toolBatches[b].calls[1])
        /\ toolBatches[b].eventsDone > toolBatches[b].events
        /\ \E i \in SentFor(b) :
             Len(sentToolResponses[i].responses) = Len(toolBatches[b].calls)

\* ---- ordering claims ----

\* the message of run g arrived before the message of run h
Earlier(g, h) == g # h /\ handlers[g].pc # "idle" /\ handlers[g].seq < handlers[h].seq

\* s is a prefix of u
IsPrefix(s, u) == Len(s) <= Len(u) /\ SubSeq(u, 1, Len(s)) = s

\* the run h of onmessage schedules a buffer in this step
Schedules(h) ==
    /\ handlers[h].pc = "decode"
    /\ handlers'[h].parts # handlers[h].parts
    /\ Len(sources') > Len(sources)

\* C29: a buffer is scheduled only when no message that arrived earlier
\* still has a part waiting to be decoded; and a step that neither flushes
\* nor discards the transcripts only appends to the accumulators.
C29_ArrivalOrder ==
    [][/\ \A h \in HandlerIds : Schedules(h) =>
            \A g \in HandlerIds : Earlier(g, h) => handlers[g].pc # "decode"
       /\ (~InterruptHandled /\ lastEvent' # "turnComplete") =>
            /\ IsPrefix(currentInputTranscriptRef, currentInputTranscriptRef')
            /\ IsPrefix(currentOutputTranscriptRef, currentOutputTranscriptRef')]_vars

\* ---- gate claims ----

\* the effects of the last render have copied isSpeaking and the
\* other-audio flag into the refs the capture callback reads
RefsInSync == isSpeakingRef = isSpeaking /\ isMusicPlayingRef = isMusicPlaying

\* C30: when isSpeaking became false Cooldown ms ago or earlier and has
\* stayed false, and the other-audio flag is not set, the gate of a
\* capture callback that fires now is open.
C30_GateReopens ==
    (/\ CaptureRunning
     /\ RefsInSync
     /\ ~isSpeaking /\ ~isMusicPlaying
     /\ speechEndedAt > 0
     /\ DateNow - speechEndedAt >= Cooldown)
    => GateOpen

\* ---- session claims ----

\* the transport sessions that are opening or open
LiveSessions == {k \in Connects : sessions[k] \in {"opening", "open"}}

\* the capture pipelines whose onaudioprocess still fires
LivePipelines ==
    {p \in Connects : /\ processors[p].state = "connected"
                      /\ inputContexts[processors[p].ctx] = "running"}

\* C31: in every reachable state at most one transport session is live and
\* at most one capture pipeline is live.
C31_OneSessionAtATime ==
    /\ Cardinality(LiveSessions) <= 1
    /\ Cardinality(LivePipelines) <= 1

\* C32: whenever no handler is in the middle of its execution (no
\* disconnect() is suspended in the closing of a context), isSpeaking is
\* true if and only if the active set is not empty.
C32_SpeakingIffActive ==
    ~CleanupRunning => (isSpeaking <=> activeSourcesRef # {})

\* C33: every response batch that was sent, or chained on a session that is
\* still opening, goes to the session that delivered its tool-call batch.
C33_ResponsesStayOnSession ==
    /\ \A i \in DOMAIN sentToolResponses :
         sentToolResponses[i].to = toolBatches[sentToolResponses[i].batch].sess
    /\ \A i \in DOMAIN deferredToolResponses :
         deferredToolResponses[i].to = toolBatches[deferredToolResponses[i].batch].sess

\* C34: a run of onmessage schedules a buffer only when no interruption has
\* been handled since its message arrived; so once an interruption is
\* handled the active set gains no buffer of audio that arrived before it.
C34_NoPlaybackAfterInterrupt ==
    [][\A h \in HandlerIds :
         Schedules(h) => handlers[h].arrived = interruptsHandled]_vars

\* C35: no frame is sent on the transport of a connect() once a
\* disconnect() that was called after that connect() has completed; this
\* includes the frames whose send was chained on the session promise.
C35_NoFrameAfterDisconnect ==
    [][\A f \in sentFrames' \ sentFrames : ~TornDown(f.sess)]_vars

\* the transport of connect() k opens in this step
Opens(k) == sessions[k] = "opening" /\ sessions'[k] = "open"

\* C36: when a session becomes Connected both transcript accumulators are
\* empty.
C36_NoTranscriptLeak ==
    [][\A k \in Connects : Opens(k) =>
         /\ currentInputTranscriptRef' = <<>>
         /\ currentOutputTranscriptRef' = <<>>]_vars

\* ---- liveness claims ----

\* C37: when the microphone request and the handshake each settle, a state
\* of Connecting is always followed by a state that is not Connecting.
C37_ConnectingEnds ==
    (connectionState = "connecting") ~> (connectionState # "connecting")

\* ---- configuration claims ----

\* C38: the configuration of every session offers the custom searchWeb
\* tool and not the native search when personalized search is enabled, and
\* the native googleSearch and not searchWeb otherwise.
C38_OneWebSearch ==
    \A k \in Connects : sessions[k] # "none" =>
        IF integrationsConfig.personalizedSearch
          THEN "searchWeb" \in tools[k].functionDeclarations /\ ~tools[k].googleSearch
          ELSE "searchWeb" \notin tools[k].functionDeclarations /\ tools[k].googleSearch

\* C39: every response to a call of a tool that is not in the manifest of
\* the session that delivered the call has the result "Disabled", which the
\* handler gives when it has not called its collaborator.
C39_DisabledNotInvoked ==
    \A i \in DOMAIN sentToolResponses :
        \A m \in DOMAIN sentToolResponses[i].responses :
            LET r == sentToolResponses[i].responses[m]
                k == toolBatches[sentToolResponses[i].batch].sess
            IN r.name \notin tools[k].functionDeclarations => r.result = "Disabled"

====
